---- MODULE Spec2Model ----
(***************************************************************************)
(* Model of api/ocr.py: the menu segmenter (extract_menu_items), the OCR   *)
(* request pipeline (ocr_endpoint) and two requests served concurrently.   *)
(* Strings are sequences of one-character strings, so that split, strip,   *)
(* len, the price regular expression and concatenation are computed.       *)
(***************************************************************************)
EXTENDS Integers, Sequences, FiniteSets, TLC

VARIABLES
    \* extract_menu_items: its argument, its locals and its position
    text, lines, idx, current_item, menu_items, pc,
    \* ocr_endpoint, one request: the uploaded image as the OCR engine sees it,
    \* the form field, the handler's locals, what the two backends did, the
    \* response and the handler's position
    image, target_lang, cfg_i, best_text, best_confidence, detected_lang,
    req_menu_items, field_i, detect_failed, failed_fields, backend_calls,
    response, req_pc,
    \* ocr_endpoint, two requests at once: what each client uploads, the upload
    \* folder, and each handler's position, image read and response
    uploads, fs, c_pc, c_image, c_response

segVars == <<text, lines, idx, current_item, menu_items, pc>>
reqVars == <<image, target_lang, cfg_i, best_text, best_confidence, detected_lang,
             req_menu_items, field_i, detect_failed, failed_fields, backend_calls,
             response, req_pc>>
concVars == <<uploads, fs, c_pc, c_image, c_response>>
vars == <<segVars, reqVars, concVars>>

\* a part of the program that a specification does not run
SegIdle ==
    /\ text = <<>> /\ lines = <<>> /\ idx = 0
    /\ current_item = <<>> /\ menu_items = <<>> /\ pc = "idle"

ReqIdle ==
    /\ image = [decoded |-> FALSE] /\ target_lang = "en" /\ cfg_i = 0
    /\ best_text = <<>> /\ best_confidence = <<0, 1>> /\ detected_lang = ""
    /\ req_menu_items = <<>> /\ field_i = 0 /\ detect_failed = FALSE
    /\ failed_fields = {} /\ backend_calls = 0
    /\ response = [status |-> 0] /\ req_pc = "idle"

ConcIdle ==
    /\ uploads = <<>> /\ fs = <<>> /\ c_pc = <<>> /\ c_image = <<>> /\ c_response = <<>>

(***************************************************************************)
(* Characters and strings                                                  *)
(***************************************************************************)
NL == "\n"
Whitespace == {" ", "\t", "\n"}
Digits == {"0", "1", "2", "3", "4", "5", "6", "7", "8", "9"}
CurrencySymbols == {"$", "€", "£", "¥", "₹"}
CurrencyCodes == {<<"U", "S", "D">>, <<"E", "U", "R">>, <<"G", "B", "P">>,
                  <<"J", "P", "Y">>, <<"I", "N", "R">>}

Rep(c, n) == [i \in 1..n |-> c]

\* str.strip(): drop leading and trailing whitespace
RECURSIVE StripLeft(_)
StripLeft(s) == IF s # <<>> /\ Head(s) \in Whitespace THEN StripLeft(Tail(s)) ELSE s

RECURSIVE StripRight(_)
StripRight(s) ==
    IF s # <<>> /\ s[Len(s)] \in Whitespace
    THEN StripRight(SubSeq(s, 1, Len(s) - 1)) ELSE s

Strip(s) == StripRight(StripLeft(s))

\* str.split('\n'): the pieces between consecutive newlines, one more than
\* there are newlines
NewlinesIn(s) == {i \in 1..Len(s) : s[i] = NL}

\* the position of the k-th newline of s; 0 before the first, Len(s)+1 after the last
NewlineAt(s, k) ==
    IF k = 0 THEN 0
    ELSE IF k > Cardinality(NewlinesIn(s)) THEN Len(s) + 1
    ELSE CHOOSE p \in NewlinesIn(s) : Cardinality({q \in NewlinesIn(s) : q < p}) = k - 1

Split(s) ==
    [k \in 1..(Cardinality(NewlinesIn(s)) + 1) |->
        SubSeq(s, NewlineAt(s, k - 1) + 1, NewlineAt(s, k) - 1)]

RECURSIVE StripNonEmpty(_)
StripNonEmpty(ls) ==
    IF ls = <<>> THEN <<>>
    ELSE IF Strip(Head(ls)) # <<>>
         THEN <<Strip(Head(ls))>> \o StripNonEmpty(Tail(ls))
         ELSE StripNonEmpty(Tail(ls))

\* lines = [line.strip() for line in text.split('\n') if line.strip()]
CleanLines(t) == StripNonEmpty(Split(t))

(***************************************************************************)
(* price_pattern and re.search                                             *)
(*   [\$€£¥₹]\s*\d+(?:\.\d{2})?                                            *)
(* | \d+(?:\.\d{2})?\s*[\$€£¥₹]                                            *)
(* | \d+(?:\.\d{2})?\s*(?:USD|EUR|GBP|JPY|INR)                             *)
(* Each Alt gives the index of the last character of the match that the    *)
(* backtracking matcher finds starting at i, or 0 when it finds none.      *)
(***************************************************************************)
RECURSIVE DigitRun(_, _)
DigitRun(s, i) == IF i <= Len(s) /\ s[i] \in Digits THEN 1 + DigitRun(s, i + 1) ELSE 0

RECURSIVE SpaceRun(_, _)
SpaceRun(s, i) == IF i <= Len(s) /\ s[i] \in Whitespace THEN 1 + SpaceRun(s, i + 1) ELSE 0

\* (?:\.\d{2})? at i: 3 characters when present, else 0
Frac(s, i) ==
    IF i + 2 <= Len(s) /\ s[i] = "." /\ s[i + 1] \in Digits /\ s[i + 2] \in Digits
    THEN 3 ELSE 0

Alt1(s, i) ==
    IF s[i] \notin CurrencySymbols THEN 0
    ELSE LET j == i + 1 + SpaceRun(s, i + 1)
             d == DigitRun(s, j)
         IN  IF d = 0 THEN 0 ELSE j + d + Frac(s, j + d) - 1

\* the tail \s*[\$€£¥₹] at j
SymbolTail(s, j) ==
    LET k == j + SpaceRun(s, j)
    IN  IF k <= Len(s) /\ s[k] \in CurrencySymbols THEN k ELSE 0

\* the tail \s*(?:USD|EUR|GBP|JPY|INR) at j
CodeTail(s, j) ==
    LET k == j + SpaceRun(s, j)
    IN  IF k + 2 <= Len(s) /\ SubSeq(s, k, k + 2) \in CurrencyCodes THEN k + 2 ELSE 0

\* \d+(?:\.\d{2})?\s*[\$€£¥₹] at i: greedy, the optional group tried first
\* and given up when the tail fails after it
Alt2(s, i) ==
    LET d == DigitRun(s, i)
        f == Frac(s, i + d)
    IN  IF d = 0 THEN 0
        ELSE IF f > 0 /\ SymbolTail(s, i + d + f) > 0 THEN SymbolTail(s, i + d + f)
        ELSE SymbolTail(s, i + d)

\* \d+(?:\.\d{2})?\s*(?:USD|EUR|GBP|JPY|INR) at i
Alt3(s, i) ==
    LET d == DigitRun(s, i)
        f == Frac(s, i + d)
    IN  IF d = 0 THEN 0
        ELSE IF f > 0 /\ CodeTail(s, i + d + f) > 0 THEN CodeTail(s, i + d + f)
        ELSE CodeTail(s, i + d)

MatchAt(s, i) ==
    IF Alt1(s, i) > 0 THEN Alt1(s, i)
    ELSE IF Alt2(s, i) > 0 THEN Alt2(s, i)
    ELSE Alt3(s, i)

NoMatch == <<>>

\* re.search(price_pattern, line): the leftmost match, <<first, last>>
PriceSearch(s) ==
    LET starts == {i \in 1..Len(s) : MatchAt(s, i) > 0}
    IN  IF starts = {} THEN NoMatch
        ELSE LET i == CHOOSE m \in starts : \A n \in starts : m <= n
             IN  <<i, MatchAt(s, i)>>

\* .group()
Group(s, m) == SubSeq(s, m[1], m[2])

(***************************************************************************)
(* extract_menu_items                                                      *)
(***************************************************************************)
MinLineLen == 3
DescLen == 20

\* a dict is a function from its keys; {} is the function of no key
EmptyDict == <<>>
IsOpen(d) == DOMAIN d # {}
Put(d, k, v) == [x \in DOMAIN d \cup {k} |-> IF x = k THEN v ELSE d[x]]
Get(d, k, default) == IF k \in DOMAIN d THEN d[k] ELSE default

IsNoise_lt2(line) == Len(line) < 2

\* if len(line) < 3: continue
IsNoise(line) == Len(line) < MinLineLen

\* has_price = bool(re.search(price_pattern, line))
HasPrice(line) == PriceSearch(line) # NoMatch

\* is_description = len(line) > 20 and not has_price
IsDescription(line) == Len(line) > DescLen /\ ~HasPrice(line)

ClosePrice_noSeparator(cur, items, line) ==
    LET priced == Put(cur, "price", Group(line, PriceSearch(line)))
        full   == Put(priced, "full_text", Get(priced, "name", <<>>) \o line)
    IN  [cur |-> EmptyDict, items |-> Append(items, full)]

ClosePrice_noReset(cur, items, line) ==
    LET priced == Put(cur, "price", Group(line, PriceSearch(line)))
        full   == Put(priced, "full_text", Get(priced, "name", <<>>) \o <<" ">> \o line)
    IN  [cur |-> full, items |-> Append(items, full)]

\* the branch `if has_price and current_item`
ClosePrice(cur, items, line) ==
    LET priced == Put(cur, "price", Group(line, PriceSearch(line)))
        full   == Put(priced, "full_text", Get(priced, "name", <<>>) \o <<" ">> \o line)
    IN  [cur |-> EmptyDict, items |-> Append(items, full)]

\* the branch `elif is_description and not current_item`
OpenDescription(line) == Put(EmptyDict, "description", line)

SetName_keepFirst(cur, line) ==
    IF IsOpen(cur)
    THEN (IF "name" \in DOMAIN cur THEN cur ELSE Put(cur, "name", line))
    ELSE Put(EmptyDict, "name", line)

\* the branch `elif not has_price and not is_description`
SetName(cur, line) ==
    IF IsOpen(cur) THEN Put(cur, "name", line) ELSE Put(EmptyDict, "name", line)

DropLine_attachDescription(cur, items, line) ==
    IF IsDescription(line)
    THEN [cur |-> Put(cur, "description", line), items |-> items]
    ELSE [cur |-> cur, items |-> items]

\* no branch of the if/elif chain is taken: the line changes nothing
DropLine(cur, items, line) == [cur |-> cur, items |-> items]

\* one iteration of `for line in lines`
LineStep(cur, items, line) ==
    IF IsNoise(line) THEN [cur |-> cur, items |-> items]
    ELSE IF HasPrice(line) /\ IsOpen(cur) THEN ClosePrice(cur, items, line)
    ELSE IF IsDescription(line) /\ ~IsOpen(cur)
         THEN [cur |-> OpenDescription(line), items |-> items]
    ELSE IF ~HasPrice(line) /\ ~IsDescription(line)
         THEN [cur |-> SetName(cur, line), items |-> items]
    ELSE DropLine(cur, items, line)

\* if current_item: menu_items.append(current_item)
FlushLast(cur, items) == IF IsOpen(cur) THEN Append(items, cur) ELSE items

RECURSIVE FoldLines(_, _, _)
FoldLines(cur, items, ls) ==
    IF ls = <<>> THEN FlushLast(cur, items)
    ELSE LET r == LineStep(cur, items, Head(ls))
         IN  FoldLines(r.cur, r.items, Tail(ls))

\* the whole function, as the request handler calls it
ExtractMenuItems(t) == FoldLines(EmptyDict, <<>>, CleanLines(t))

(***************************************************************************)
(* Input texts of the segmenter                                            *)
(***************************************************************************)
MaxLines == 3

L_Empty == <<>>
L_ShortPrice == <<"$", "5">>
L_ShortPadded == <<" ", "a", "b", " ">>
L_Tea == <<"T", "e", "a">>
L_Pasta == <<"P", "a", "s", "t", "a">>
L_Title20 == <<"\t">> \o Rep("a", 20) \o <<" ">>
L_Desc21 == Rep("b", 21)
L_PastaDesc ==
    <<"D", "e", "l", "i", "c", "i", "o", "u", "s", " ", "h", "a", "n", "d", "m", "a",
      "d", "e", " ", "p", "a", "s", "t", "a", " ", "w", "i", "t", "h", " ", "t", "r",
      "u", "f", "f", "l", "e", " ", "s", "a", "u", "c", "e">>
L_Price == <<"$", "1", "2", ".", "5", "0">>
L_TwoPrices == <<"x", " ", "7", "$", " ", "€", "8">>
L_Code == <<" ", "1", "2", " ", "U", "S", "D">>
L_LongPrice == Rep("c", 21) \o <<" ", "₹", " ", "9">>
L_Tricky == <<"1", ".", "2", "3", "4", "$", "5">>

RawLines ==
    {L_Empty, L_ShortPrice, L_ShortPadded, L_Tea, L_Pasta, L_Title20, L_Desc21,
     L_PastaDesc, L_Price, L_TwoPrices, L_Code, L_LongPrice, L_Tricky}

BoundedSeq(S, n) == UNION {[1..k -> S] : k \in 0..n}

\* '\n'.join(ls)
RECURSIVE JoinNL(_)
JoinNL(ls) ==
    IF ls = <<>> THEN <<>>
    ELSE IF Len(ls) = 1 THEN ls[1]
    ELSE ls[1] \o <<NL>> \o JoinNL(Tail(ls))

(***************************************************************************)
(* The segmenter as a state machine: one action per kind of loop iteration *)
(***************************************************************************)
SegInit ==
    /\ text \in {JoinNL(ls) : ls \in BoundedSeq(RawLines, MaxLines)}
    /\ lines = CleanLines(text)
    /\ idx = 1
    /\ current_item = EmptyDict
    /\ menu_items = <<>>
    /\ pc = "loop"
    /\ ReqIdle /\ ConcIdle

InLoop == pc = "loop" /\ idx <= Len(lines)

Iterate ==
    LET r == LineStep(current_item, menu_items, lines[idx])
    IN  /\ current_item' = r.cur
        /\ menu_items' = r.items
        /\ idx' = idx + 1
        /\ UNCHANGED <<text, lines, pc>>
        /\ UNCHANGED <<reqVars, concVars>>

SkipNoise == InLoop /\ IsNoise(lines[idx]) /\ Iterate

PriceLine ==
    /\ InLoop /\ ~IsNoise(lines[idx])
    /\ HasPrice(lines[idx]) /\ IsOpen(current_item)
    /\ Iterate

DescriptionLine ==
    /\ InLoop /\ ~IsNoise(lines[idx])
    /\ IsDescription(lines[idx]) /\ ~IsOpen(current_item)
    /\ Iterate

TitleLine ==
    /\ InLoop /\ ~IsNoise(lines[idx])
    /\ ~HasPrice(lines[idx]) /\ ~IsDescription(lines[idx])
    /\ Iterate

DroppedLine ==
    /\ InLoop /\ ~IsNoise(lines[idx])
    /\ \/ HasPrice(lines[idx]) /\ ~IsOpen(current_item)
       \/ IsDescription(lines[idx]) /\ IsOpen(current_item)
    /\ Iterate

Finish ==
    /\ pc = "loop" /\ idx > Len(lines)
    /\ menu_items' = FlushLast(current_item, menu_items)
    /\ pc' = "done"
    /\ UNCHANGED <<text, lines, idx, current_item>>
    /\ UNCHANGED <<reqVars, concVars>>

SegNext == SkipNoise \/ PriceLine \/ DescriptionLine \/ TitleLine \/ DroppedLine \/ Finish

SpecSeg == SegInit /\ [][SegNext]_vars

(***************************************************************************)
(* ocr_endpoint: the OCR selection                                         *)
(* An image is what the OCR engine makes of it under each of the three     *)
(* configurations: whether image_to_data and image_to_string raise, the    *)
(* per-token confidences and the text.  A confidence is the exact quotient *)
(* <<sum, count>>.                                                         *)
(***************************************************************************)
NumConfigs == 3

RECURSIVE Sum(_)
Sum(q) == IF q = <<>> THEN 0 ELSE Head(q) + Sum(Tail(q))

\* confidences = [int(conf) for conf in data['conf'] if int(conf) > 0]
\* avg_confidence = sum(confidences) / len(confidences) if confidences else 0
AvgConfidence(conf) ==
    LET confidences == SelectSeq(conf, LAMBDA c : c > 0)
    IN  IF confidences # <<>> THEN <<Sum(confidences), Len(confidences)>> ELSE <<0, 1>>

\* a > b on quotients
Greater(a, b) == a[1] * b[2] > b[1] * a[2]

ProfileFails(prof) == ~prof.data_ok \/ ~prof.string_ok

\* one iteration of `for config in ocr_configs`, on best == [text, confidence]
ProfileStep(best, prof) ==
    IF ProfileFails(prof) THEN best
    ELSE IF Greater(AvgConfidence(prof.conf), best.confidence)
         THEN [text |-> prof.text, confidence |-> AvgConfidence(prof.conf)]
         ELSE best

RECURSIVE SelectFrom(_, _)
SelectFrom(best, profs) ==
    IF profs = <<>> THEN best ELSE SelectFrom(ProfileStep(best, Head(profs)), Tail(profs))

\* best_text = "", best_confidence = 0, then the loop
SelectBest(profs) == SelectFrom([text |-> <<>>, confidence |-> <<0, 1>>], profs)

IsBlank_emptyOnly(t) == t = <<>>

\* not best_text.strip()
IsBlank(t) == Strip(t) = <<>>

(***************************************************************************)
(* detect_language, translate_text and the translation loop                *)
(* A backend call either answers or raises; a function either returns a    *)
(* value or lets the exception out.                                        *)
(***************************************************************************)
Returned(v) == [raised |-> FALSE, value |-> v]
Raised == [raised |-> TRUE, value |-> ""]

DetectLanguage_noCatch(outcome) ==
    IF outcome.ok THEN Returned(outcome.lang) ELSE Raised

\* try: return translator.detect(text).lang / except Exception: return 'unknown'
DetectLanguage(outcome) ==
    IF outcome.ok THEN Returned(outcome.lang) ELSE Returned("unknown")

\* what the translation backend answers for t: not t itself
BackendTranslate(t, lang) == <<"[", lang, "]">> \o t

\* translate_text(text, target_lang); ok says whether translator.translate answers
TranslateText(t, lang, ok) ==
    IF lang = "en" THEN Returned(t)
    ELSE IF ok THEN Returned(BackendTranslate(t, lang))
    ELSE Returned(t)

\* whether translate_text reaches translator.translate
CallsBackend(lang) == lang # "en"

ShouldTranslate_ignoreEnglish(target, detected) == detected # target

\* if target_lang != 'en' and detected_lang != target_lang
ShouldTranslate(target, detected) == target # "en" /\ detected # target

\* the loops `for item in menu_items: for key in ['name', 'description']`,
\* flattened: position f is item ItemOf(f), key KeyOf(f)
ItemOf(f) == (f + 1) \div 2
KeyOf(f) == IF f % 2 = 1 THEN "name" ELSE "description"
TranslatedKey(key) == IF key = "name" THEN "name_translated" ELSE "description_translated"

(***************************************************************************)
(* Inputs of a request                                                     *)
(***************************************************************************)
T_Tea == JoinNL(<<L_Tea, L_Price>>)
T_Menu == JoinNL(<<L_Desc21, L_Pasta, L_TwoPrices, L_Tea>>)
T_Blank == <<" ", NL, "\t", NL>>
T_Noise == <<"$", "5", NL>>

Profile(dok, conf, sok, t) == [data_ok |-> dok, conf |-> conf, string_ok |-> sok, text |-> t]

Profiles ==
    {Profile(FALSE, <<>>, TRUE, T_Tea),          \* image_to_data raises
     Profile(TRUE, <<85>>, FALSE, <<>>),          \* image_to_string raises
     Profile(TRUE, <<>>, TRUE, <<>>),             \* nothing recognised
     Profile(TRUE, <<-1, 0>>, TRUE, T_Tea),       \* text, no positive confidence
     Profile(TRUE, <<40>>, TRUE, T_Tea),
     Profile(TRUE, <<-1, 85>>, TRUE, T_Menu),
     Profile(TRUE, <<80, 90>>, TRUE, T_Noise),    \* the same mean, 85
     Profile(TRUE, <<60, 60>>, TRUE, T_Blank)}

Images ==
    {[decoded |-> FALSE]}
    \cup {[decoded |-> TRUE, profiles |-> ps] : ps \in [1..NumConfigs -> Profiles]}

TargetLangs == {"en", "fr"}
DetectOutcomes == {[ok |-> TRUE, lang |-> "en"], [ok |-> TRUE, lang |-> "fr"],
                   [ok |-> FALSE, lang |-> ""]}

(***************************************************************************)
(* One request through ocr_endpoint                                        *)
(***************************************************************************)
ErrorResponse(status, msg) == [status |-> status, error |-> msg]

\* the dict built under `# Prepare response`, with jsonify's status
SuccessResponse(detected, target, confidence, raw, its) ==
    [status |-> 200, success |-> TRUE, detected_language |-> detected,
     target_language |-> target, confidence |-> confidence, raw_text |-> raw,
     menu_items |-> its, total_items |-> Len(its)]

ReqInit ==
    /\ image \in Images
    /\ target_lang \in TargetLangs
    /\ cfg_i = 0
    /\ best_text = <<>> /\ best_confidence = <<0, 1>> /\ detected_lang = ""
    /\ req_menu_items = <<>> /\ field_i = 0 /\ detect_failed = FALSE
    /\ failed_fields = {} /\ backend_calls = 0
    /\ response = [status |-> 0]
    /\ req_pc = "read"
    /\ SegIdle /\ ConcIdle

\* image = cv2.imread(filepath) gives an image
ReadImage ==
    /\ req_pc = "read" /\ image.decoded
    /\ cfg_i' = 1 /\ req_pc' = "ocr"
    /\ UNCHANGED <<image, target_lang, best_text, best_confidence, detected_lang,
                   req_menu_items, field_i, detect_failed, failed_fields,
                   backend_calls, response>>
    /\ UNCHANGED <<segVars, concVars>>

\* if image is None: return 400
ReadImageFails ==
    /\ req_pc = "read" /\ ~image.decoded
    /\ response' = ErrorResponse(400, "Could not read image file")
    /\ req_pc' = "done"
    /\ UNCHANGED <<image, target_lang, cfg_i, best_text, best_confidence,
                   detected_lang, req_menu_items, field_i, detect_failed,
                   failed_fields, backend_calls>>
    /\ UNCHANGED <<segVars, concVars>>

OcrIterate ==
    LET r == ProfileStep([text |-> best_text, confidence |-> best_confidence],
                         image.profiles[cfg_i])
    IN  /\ best_text' = r.text
        /\ best_confidence' = r.confidence
        /\ cfg_i' = cfg_i + 1
        /\ req_pc' = IF cfg_i = NumConfigs THEN "check" ELSE "ocr"
        /\ UNCHANGED <<image, target_lang, detected_lang, req_menu_items, field_i,
                       detect_failed, failed_fields, backend_calls, response>>
        /\ UNCHANGED <<segVars, concVars>>

\* the body of the try runs to its end
OcrProfile == req_pc = "ocr" /\ ~ProfileFails(image.profiles[cfg_i]) /\ OcrIterate

\* except Exception: continue
OcrProfileFails == req_pc = "ocr" /\ ProfileFails(image.profiles[cfg_i]) /\ OcrIterate

\* if not best_text.strip(): return 400
NoTextDetected ==
    /\ req_pc = "check" /\ IsBlank(best_text)
    /\ response' = ErrorResponse(400, "No text detected in image")
    /\ req_pc' = "done"
    /\ UNCHANGED <<image, target_lang, cfg_i, best_text, best_confidence,
                   detected_lang, req_menu_items, field_i, detect_failed,
                   failed_fields, backend_calls>>
    /\ UNCHANGED <<segVars, concVars>>

\* detected_lang = detect_language(best_text); an exception that detect_language
\* lets out reaches the handler's `except Exception`, which answers 500
Detect ==
    /\ req_pc = "check" /\ ~IsBlank(best_text)
    /\ \E outcome \in DetectOutcomes :
         LET r == DetectLanguage(outcome)
         IN  /\ detect_failed' = ~outcome.ok
             /\ IF r.raised
                THEN /\ response' = ErrorResponse(500, "Processing failed")
                     /\ req_pc' = "done"
                     /\ UNCHANGED detected_lang
                ELSE /\ detected_lang' = r.value
                     /\ req_pc' = "extract"
                     /\ UNCHANGED response
    /\ UNCHANGED <<image, target_lang, cfg_i, best_text, best_confidence,
                   req_menu_items, field_i, failed_fields, backend_calls>>
    /\ UNCHANGED <<segVars, concVars>>

\* menu_items = extract_menu_items(best_text), then the test before the loops
Extract ==
    /\ req_pc = "extract"
    /\ req_menu_items' = ExtractMenuItems(best_text)
    /\ field_i' = 1
    /\ req_pc' = IF ShouldTranslate(target_lang, detected_lang) THEN "translate" ELSE "respond"
    /\ UNCHANGED <<image, target_lang, cfg_i, best_text, best_confidence,
                   detected_lang, detect_failed, failed_fields, backend_calls, response>>
    /\ UNCHANGED <<segVars, concVars>>

InFields == req_pc = "translate" /\ field_i <= 2 * Len(req_menu_items)

\* if key in item: item[f'{key}_translated'] = translate_text(item[key], target_lang)
TranslateField ==
    /\ InFields
    /\ KeyOf(field_i) \in DOMAIN req_menu_items[ItemOf(field_i)]
    /\ \E ok \in BOOLEAN :
         LET i == ItemOf(field_i)
             k == KeyOf(field_i)
             r == TranslateText(req_menu_items[i][k], target_lang, ok)
         IN  /\ req_menu_items' =
                   [req_menu_items EXCEPT ![i] = Put(@, TranslatedKey(k), r.value)]
             /\ backend_calls' = backend_calls + (IF CallsBackend(target_lang) THEN 1 ELSE 0)
             /\ failed_fields' =
                   IF CallsBackend(target_lang) /\ ~ok
                   THEN failed_fields \cup {<<i, k>>} ELSE failed_fields
    /\ field_i' = field_i + 1
    /\ UNCHANGED <<image, target_lang, cfg_i, best_text, best_confidence,
                   detected_lang, detect_failed, response, req_pc>>
    /\ UNCHANGED <<segVars, concVars>>

\* the item has no such key
SkipField ==
    /\ InFields
    /\ KeyOf(field_i) \notin DOMAIN req_menu_items[ItemOf(field_i)]
    /\ field_i' = field_i + 1
    /\ UNCHANGED <<image, target_lang, cfg_i, best_text, best_confidence,
                   detected_lang, req_menu_items, detect_failed, failed_fields,
                   backend_calls, response, req_pc>>
    /\ UNCHANGED <<segVars, concVars>>

\* return jsonify(response)
Respond ==
    /\ \/ req_pc = "respond"
       \/ req_pc = "translate" /\ field_i > 2 * Len(req_menu_items)
    /\ response' = SuccessResponse(detected_lang, target_lang, best_confidence,
                                   best_text, req_menu_items)
    /\ req_pc' = "done"
    /\ UNCHANGED <<image, target_lang, cfg_i, best_text, best_confidence,
                   detected_lang, req_menu_items, field_i, detect_failed,
                   failed_fields, backend_calls>>
    /\ UNCHANGED <<segVars, concVars>>

ReqNext ==
    \/ ReadImage \/ ReadImageFails \/ OcrProfile \/ OcrProfileFails
    \/ NoTextDetected \/ Detect \/ Extract \/ TranslateField \/ SkipField \/ Respond

SpecReq == ReqInit /\ [][ReqNext]_vars

(***************************************************************************)
(* The whole pipeline on one image, with backends that answer: detection   *)
(* says "en", translation gives BackendTranslate                           *)
(***************************************************************************)
WithTranslation(item, key, lang) ==
    IF key \in DOMAIN item
    THEN Put(item, TranslatedKey(key), TranslateText(item[key], lang, TRUE).value)
    ELSE item

TranslateAll(its, lang) ==
    [i \in DOMAIN its |->
        WithTranslation(WithTranslation(its[i], "name", lang), "description", lang)]

\* lines 145-209 of ocr_endpoint, from imread's result to the response
HandleImage(img, target) ==
    IF ~img.decoded THEN ErrorResponse(400, "Could not read image file")
    ELSE LET best == SelectBest(img.profiles)
         IN  IF IsBlank(best.text) THEN ErrorResponse(400, "No text detected in image")
             ELSE LET detected == DetectLanguage([ok |-> TRUE, lang |-> "en"]).value
                      its == ExtractMenuItems(best.text)
                  IN  SuccessResponse(detected, target, best.confidence, best.text,
                                      IF ShouldTranslate(target, detected)
                                      THEN TranslateAll(its, target) ELSE its)

(***************************************************************************)
(* Two requests handled at once: the upload folder is shared               *)
(***************************************************************************)
Procs == {1, 2}

UPLOAD_FOLDER == <<"/", "t", "m", "p", "/", "u", "p", "l", "o", "a", "d", "s">>

F_Menu == <<"m", "e", "n", "u", ".", "p", "n", "g">>
F_MyMenuSpace == <<"m", "y", " ", "m", ".", "p", "n", "g">>
F_MyMenuUnder == <<"m", "y", "_", "m", ".", "p", "n", "g">>
Filenames == {F_Menu, F_MyMenuSpace, F_MyMenuUnder}

\* werkzeug's secure_filename, on names of letters, dots, underscores and spaces
SecureFilename(name) == [i \in DOMAIN name |-> IF name[i] = " " THEN "_" ELSE name[i]]

\* filepath = os.path.join(app.config['UPLOAD_FOLDER'], filename)
FilePath(name) == UPLOAD_FOLDER \o <<"/">> \o SecureFilename(name)

Paths == {FilePath(n) : n \in Filenames}

ImgTea == [decoded |-> TRUE, profiles |-> [k \in 1..NumConfigs |-> Profile(TRUE, <<40>>, TRUE, T_Tea)]]
ImgMenu == [decoded |-> TRUE, profiles |-> [k \in 1..NumConfigs |-> Profile(TRUE, <<-1, 85>>, TRUE, T_Menu)]]
NotAnImage == [decoded |-> FALSE]
FileContents == {ImgTea, ImgMenu, NotAnImage}

Absent == [present |-> FALSE]
File(content) == [present |-> TRUE, content |-> content]

ConcInit ==
    /\ uploads \in [Procs -> [filename : Filenames, content : FileContents,
                              target_lang : TargetLangs]]
    /\ fs = [path \in Paths |-> Absent]
    /\ c_pc = [p \in Procs |-> "save"]
    /\ c_image = [p \in Procs |-> NotAnImage]
    /\ c_response = [p \in Procs |-> [status |-> 0]]
    /\ SegIdle /\ ReqIdle

PathOf(p) == FilePath(uploads[p].filename)

\* whether cv2.imread(path) gives an image rather than None
Readable(path) == fs[path].present /\ fs[path].content.decoded

\* file.save(filepath)
Save(p) ==
    /\ c_pc[p] = "save"
    /\ fs' = [fs EXCEPT ![PathOf(p)] = File(uploads[p].content)]
    /\ c_pc' = [c_pc EXCEPT ![p] = "read"]
    /\ UNCHANGED <<uploads, c_image, c_response>>
    /\ UNCHANGED <<segVars, reqVars>>

\* image = cv2.imread(filepath) gives an image
ReadOk(p) ==
    /\ c_pc[p] = "read"
    /\ Readable(PathOf(p))
    /\ c_image' = [c_image EXCEPT ![p] = fs[PathOf(p)].content]
    /\ c_pc' = [c_pc EXCEPT ![p] = "process"]
    /\ UNCHANGED <<uploads, fs, c_response>>
    /\ UNCHANGED <<segVars, reqVars>>

\* imread gives None (no such file, or not an image): return 400, then finally
ReadNone(p) ==
    /\ c_pc[p] = "read"
    /\ ~Readable(PathOf(p))
    /\ c_response' = [c_response EXCEPT ![p] = HandleImage(NotAnImage, uploads[p].target_lang)]
    /\ c_pc' = [c_pc EXCEPT ![p] = "exists"]
    /\ UNCHANGED <<uploads, fs, c_image>>
    /\ UNCHANGED <<segVars, reqVars>>

\* preprocessing to `return jsonify(response)`, then finally
Process(p) ==
    /\ c_pc[p] = "process"
    /\ c_response' = [c_response EXCEPT ![p] = HandleImage(c_image[p], uploads[p].target_lang)]
    /\ c_pc' = [c_pc EXCEPT ![p] = "exists"]
    /\ UNCHANGED <<uploads, fs, c_image>>
    /\ UNCHANGED <<segVars, reqVars>>

\* if os.path.exists(filepath): true
ExistsTrue(p) ==
    /\ c_pc[p] = "exists" /\ fs[PathOf(p)].present
    /\ c_pc' = [c_pc EXCEPT ![p] = "remove"]
    /\ UNCHANGED <<uploads, fs, c_image, c_response>>
    /\ UNCHANGED <<segVars, reqVars>>

\* if os.path.exists(filepath): false, the return value stands
ExistsFalse(p) ==
    /\ c_pc[p] = "exists" /\ ~fs[PathOf(p)].present
    /\ c_pc' = [c_pc EXCEPT ![p] = "done"]
    /\ UNCHANGED <<uploads, fs, c_image, c_response>>
    /\ UNCHANGED <<segVars, reqVars>>

\* os.remove(filepath) removes the file
RemoveOk(p) ==
    /\ c_pc[p] = "remove" /\ fs[PathOf(p)].present
    /\ fs' = [fs EXCEPT ![PathOf(p)] = Absent]
    /\ c_pc' = [c_pc EXCEPT ![p] = "done"]
    /\ UNCHANGED <<uploads, c_image, c_response>>
    /\ UNCHANGED <<segVars, reqVars>>

\* os.remove(filepath) raises FileNotFoundError inside finally: the exception
\* replaces the return value and `except Exception` answers 500
RemoveRaises(p) ==
    /\ c_pc[p] = "remove" /\ ~fs[PathOf(p)].present
    /\ c_response' = [c_response EXCEPT ![p] = ErrorResponse(500, "Processing failed")]
    /\ c_pc' = [c_pc EXCEPT ![p] = "done"]
    /\ UNCHANGED <<uploads, fs, c_image>>
    /\ UNCHANGED <<segVars, reqVars>>

ConcNext ==
    \E p \in Procs :
        \/ Save(p) \/ ReadOk(p) \/ ReadNone(p) \/ Process(p)
        \/ ExistsTrue(p) \/ ExistsFalse(p) \/ RemoveOk(p) \/ RemoveRaises(p)

SpecConc == ConcInit /\ [][ConcNext]_vars

(***************************************************************************)
(* Properties of the segmenter                                             *)
(***************************************************************************)
\* the lines the loop does not skip, among those already consumed / all
Kept(ls) == SelectSeq(ls, LAMBDA l : Len(l) >= 3)
Consumed == Kept(SubSeq(lines, 1, idx - 1))

\* the lines consumed since the last price line: those of the item now open
CurrentRun ==
    LET v == Consumed
        P == {k \in 1..Len(v) : HasPrice(v[k])}
        p == IF P = {} THEN 0 ELSE CHOOSE m \in P : \A n \in P : n <= m
    IN  SubSeq(v, p + 1, Len(v))

\* the first match of the price pattern in each priced line of RawLines, as
\* re.search reports it
FirstPriceOf(line) ==
    CASE line = L_Price -> <<"$", "1", "2", ".", "5", "0">>
      [] line = L_TwoPrices -> <<"7", "$">>
      [] line = Strip(L_Code) -> <<"1", "2", " ", "U", "S", "D">>
      [] line = L_LongPrice -> <<"₹", " ", "9">>
      [] line = L_Tricky -> <<"2", "3", "4", "$">>
      [] OTHER -> <<>>

C2_Case ==
    /\ InLoop /\ Len(lines[idx]) >= 3
    /\ HasPrice(lines[idx]) /\ IsOpen(current_item)

\* C2: a price line met while an item is open sets the item's price to the
\* first price match of the line and its full_text to name (or "") + " " +
\* line, appends the item exactly once, keeps its other fields and resets the
\* accumulator.
C2_PriceLineCloses ==
    [][C2_Case =>
        LET line == lines[idx]
            n    == Len(menu_items)
        IN  /\ Len(menu_items') = n + 1
            /\ SubSeq(menu_items', 1, n) = menu_items
            /\ LET it == menu_items'[n + 1]
               IN  /\ DOMAIN it = DOMAIN current_item \cup {"price", "full_text"}
                   /\ it["price"] = FirstPriceOf(line)
                   /\ it["full_text"] =
                        (IF "name" \in DOMAIN current_item
                         THEN current_item["name"] ELSE <<>>) \o <<" ">> \o line
                   /\ \A k \in DOMAIN current_item \ {"price", "full_text"} :
                        it[k] = current_item[k]
            /\ ~IsOpen(current_item')]_segVars

C2_Witness ==
    \E i \in 1..Len(menu_items) :
        /\ DOMAIN menu_items[i] = {"description", "price", "full_text"}
        /\ menu_items[i]["price"] = <<"7", "$">>
        /\ menu_items[i]["full_text"] = <<" ">> \o L_TwoPrices

OpenAtEnd == LET v == Kept(lines) IN v # <<>> /\ ~HasPrice(v[Len(v)])

\* price lines that follow a line without a price: the closings
Closings ==
    LET v == Kept(lines)
    IN  Cardinality({k \in 2..Len(v) : HasPrice(v[k]) /\ ~HasPrice(v[k - 1])})

\* C6: every returned item but the last has price and full_text; an item
\* without a price is the last one and is there exactly when an item was open
\* at the end of the input; one item per closing, none empty.
C6_ItemsClosedOrTrailing ==
    /\ \A i \in 1..Len(menu_items) : DOMAIN menu_items[i] # {}
    /\ \A i \in 1..Len(menu_items) :
         (pc # "done" \/ i < Len(menu_items))
            => {"price", "full_text"} \subseteq DOMAIN menu_items[i]
    /\ pc = "done" =>
         /\ (\E i \in 1..Len(menu_items) : "price" \notin DOMAIN menu_items[i])
               <=> OpenAtEnd
         /\ Len(menu_items) = Closings + (IF OpenAtEnd THEN 1 ELSE 0)

C6_Witness ==
    /\ pc = "done" /\ Len(menu_items) = 2
    /\ "price" \in DOMAIN menu_items[1]
    /\ DOMAIN menu_items[2] = {"name"}

PastaText == JoinNL(<<L_Pasta, L_PastaDesc, L_Price>>)

PastaItems ==
    <<[name |-> L_Pasta, price |-> L_Price, full_text |-> L_Pasta \o <<" ">> \o L_Price]>>

C8_Case ==
    /\ InLoop /\ Len(lines[idx]) > 20
    /\ ~HasPrice(lines[idx]) /\ IsOpen(current_item)

C8_Descriptions ==
    /\ IsOpen(current_item) <=> CurrentRun # <<>>
    /\ IsOpen(current_item) =>
         IF Len(CurrentRun[1]) > 20
         THEN "description" \in DOMAIN current_item
              /\ current_item["description"] = CurrentRun[1]
         ELSE "description" \notin DOMAIN current_item
    /\ (pc = "done" /\ text = PastaText) => menu_items = PastaItems

\* C8: a description line met while an item is open changes neither the
\* accumulator nor the result; an item's description is the line that opened
\* it, an item opened by a title has none; the Pasta example gives one item.
C8_DescriptionDropped ==
    /\ []C8_Descriptions
    /\ [][C8_Case => UNCHANGED <<current_item, menu_items>>]_segVars

C8_Witness == pc = "done" /\ text = PastaText /\ menu_items = PastaItems

C9_Case ==
    /\ InLoop /\ Len(lines[idx]) >= 3 /\ Len(lines[idx]) <= 20
    /\ ~HasPrice(lines[idx])

\* the title lines of the item now open
RunTitles == SelectSeq(CurrentRun, LAMBDA l : Len(l) <= 20)

C9_NameIsLastTitle ==
    IsOpen(current_item) =>
        IF RunTitles = <<>> THEN "name" \notin DOMAIN current_item
        ELSE "name" \in DOMAIN current_item
             /\ current_item["name"] = RunTitles[Len(RunTitles)]

C9_Step ==
    /\ C9_Case =>
         /\ menu_items' = menu_items
         /\ DOMAIN current_item' = DOMAIN current_item \cup {"name"}
         /\ current_item'["name"] = lines[idx]
         /\ \A k \in DOMAIN current_item \ {"name"} : current_item'[k] = current_item[k]
    /\ Len(menu_items') > Len(menu_items) =>
         Get(menu_items'[Len(menu_items')], "name", <<>>) = Get(current_item, "name", <<>>)

\* C9: a title line sets the open item's name, overwriting an earlier one and
\* changing nothing else, or opens an item holding only that name; an item's
\* name is the last title line seen since it was opened.
C9_TitleSetsName == []C9_NameIsLastTitle /\ [][C9_Step]_segVars

C9_Witness ==
    /\ pc = "loop" /\ idx = 4
    /\ lines = <<L_Desc21, L_Tea, L_Pasta>>
    /\ current_item = [description |-> L_Desc21, name |-> L_Pasta]

\* the text without its lines of fewer than 3 characters once trimmed
WithoutShortLines(t) == JoinNL(SelectSeq(Split(t), LAMBDA l : Len(Strip(l)) >= 3))

\* C10: lines shorter than 3 characters once trimmed have no effect: the
\* result is that of the text without them, and every name and description
\* is a line of at least 3 characters.
C10_ShortLinesIgnored ==
    pc = "done" =>
        /\ menu_items = ExtractMenuItems(WithoutShortLines(text))
        /\ \A i \in 1..Len(menu_items) :
             \A k \in DOMAIN menu_items[i] \cap {"name", "description"} :
                /\ Len(menu_items[i][k]) >= 3
                /\ \E j \in 1..Len(lines) : lines[j] = menu_items[i][k]

C10_Witness ==
    /\ pc = "done"
    /\ text = JoinNL(<<L_Tea, L_ShortPrice, L_Price>>)
    /\ menu_items =
         <<[name |-> L_Tea, price |-> L_Price, full_text |-> L_Tea \o <<" ">> \o L_Price]>>

(***************************************************************************)
(* Properties of one request                                               *)
(***************************************************************************)
SelectionDone == image.decoded /\ req_pc \notin {"read", "ocr"}

Succeeded == {k \in 1..NumConfigs : ~ProfileFails(image.profiles[k])}

MeanOf(k) == AvgConfidence(image.profiles[k].conf)

\* the first profile, in trial order, whose mean is the highest of Succeeded
FirstHighest ==
    LET top == {k \in Succeeded : \A j \in Succeeded : ~Greater(MeanOf(j), MeanOf(k))}
    IN  CHOOSE k \in top : \A j \in top : k <= j

\* C1: after the three profiles the kept text and confidence are those of the
\* first profile with the highest meanConfidence among those that did not
\* fail; failed profiles leave the candidate as it was.
C1_FirstHighestKept ==
    SelectionDone =>
        IF Succeeded = {}
        THEN best_text = <<>> /\ best_confidence = <<0, 1>>
        ELSE /\ best_text = image.profiles[FirstHighest].text
             /\ ~Greater(best_confidence, MeanOf(FirstHighest))
             /\ ~Greater(MeanOf(FirstHighest), best_confidence)

HasNonWhitespace(t) == \E i \in 1..Len(t) : t[i] \notin {" ", "\t", "\n"}

NoTextResponse == [status |-> 400, error |-> "No text detected in image"]

\* C3: when every profile fails or the kept text is empty or blank the request
\* ends with 400 'No text detected in image'; a success result is returned
\* only for a text with a non-whitespace character.
C3_NoTextDetected ==
    (req_pc = "done" /\ image.decoded) =>
        /\ (Succeeded = {} \/ ~HasNonWhitespace(best_text)) => response = NoTextResponse
        /\ response.status = 200 => HasNonWhitespace(best_text)
        /\ response.status = 200 => response.raw_text = best_text

C3_Witness ==
    /\ req_pc = "done" /\ image.decoded
    /\ best_text = T_Blank
    /\ response = NoTextResponse

\* C4: once the image decodes and the selected text is not blank, failures of
\* the detection and translation backends never abort the request: it
\* succeeds, with 'unknown' as language when detection failed and the
\* original text as translation of every field whose translation failed.
C4_BackendsDegrade ==
    (req_pc = "done" /\ image.decoded /\ HasNonWhitespace(best_text)) =>
        /\ response.status = 200 /\ response.success
        /\ detect_failed => response.detected_language = "unknown"
        /\ \A f \in failed_fields :
             LET item == response.menu_items[f[1]]
             IN  /\ TranslatedKey(f[2]) \in DOMAIN item
                 /\ item[TranslatedKey(f[2])] = item[f[2]]

C4_Witness ==
    /\ req_pc = "done" /\ response.status = 200
    /\ detect_failed /\ response.detected_language = "unknown"
    /\ <<1, "description">> \in failed_fields
    /\ <<1, "name">> \notin failed_fields
    /\ response.menu_items[1]["description_translated"] = L_Desc21

BaseKeys == {"name", "description", "price", "full_text"}

\* C5: in a success result an item has '<field>_translated' exactly when the
\* target is not 'en', differs from the detected language, the field is name
\* or description and the item has it; otherwise no key is added and the
\* backend is not called; the extracted fields are never modified.
C5_TranslatedKeys ==
    (req_pc = "done" /\ response.status = 200) =>
        LET its  == response.menu_items
            base == ExtractMenuItems(response.raw_text)
            wanted == response.target_language # "en"
                      /\ response.detected_language # response.target_language
        IN  /\ Len(its) = Len(base)
            /\ \A i \in 1..Len(its) :
                 /\ \A f \in {"name", "description"} :
                      TranslatedKey(f) \in DOMAIN its[i] <=> (wanted /\ f \in DOMAIN its[i])
                 /\ DOMAIN its[i] \cap BaseKeys = DOMAIN base[i]
                 /\ DOMAIN its[i] \subseteq
                      BaseKeys \cup {"name_translated", "description_translated"}
                 /\ \A k \in DOMAIN base[i] : its[i][k] = base[i][k]
            /\ ~wanted => (backend_calls = 0 /\ its = base)

C5_Witness ==
    /\ req_pc = "done" /\ response.status = 200
    /\ response.target_language = "fr" /\ response.detected_language = "en"
    /\ Len(response.menu_items) = 2
    /\ DOMAIN response.menu_items[1] =
         {"description", "name", "price", "full_text",
          "description_translated", "name_translated"}
    /\ DOMAIN response.menu_items[2] = {"name", "name_translated"}
    /\ response.menu_items[2]["name_translated"] = BackendTranslate(L_Tea, "fr")

(***************************************************************************)
(* Property of two concurrent requests                                     *)
(***************************************************************************)
\* C7: each of two requests handled concurrently returns the response it
\* would return alone, whatever the interleaving and the filenames.
C7_RequestsIsolated ==
    \A p \in DOMAIN c_pc :
        c_pc[p] = "done" =>
            c_response[p] = HandleImage(uploads[p].content, uploads[p].target_lang)

====
